---- MODULE Spec2Model ----
(***************************************************************************)
(* Model of the admission and resilience parts of the Tempo API proxy:     *)
(* the request queue (src/logging.ts, "Request Queue Module"), a FIFO      *)
(* queue with a concurrency limit; the sliding-window rate limiter         *)
(* (src/auth.ts, "Rate Limiter Module"); and the backoff calculator        *)
(* (src/retry.ts).  Each part has its own specification, in which the      *)
(* other parts stay idle.                                                  *)
(*                                                                         *)
(* One action is one JavaScript job (a call from the host, or one promise  *)
(* reaction): jobs run to completion, and other jobs may run between the   *)
(* reactions of one promise chain.                                         *)
(*                                                                         *)
(* Left out: processedOrder and enqueuedAt (written, never read by the     *)
(* queue's own logic) and reset(), which QueueSpec never calls.            *)
(***************************************************************************)
EXTENDS Integers, Sequences, FiniteSets, TLC

\* ---------------------------------------------------------------- bounds
\* Number of enqueue calls made in one behaviour.
MaxTasks == 5
\* Largest config.maxConcurrent tried (the smallest is 1).
MaxConcurrent == 2
\* Largest config.maxQueueSize tried (the smallest is 0).
MaxQueueSize == 2

Tasks == 1..MaxTasks

\* Number of recordRequest calls made in one behaviour.
MaxRecords == 2
\* The clock advances in steps of TimeStep ms, MaxTicks times at most.
TimeStep == 500
MaxTicks == 3
\* config.windowMs is 1..MaxWindowSteps steps of the clock.
MaxWindowSteps == 3
\* Largest config.maxRequests tried (the smallest is 0).
MaxMaxRequests == 2

\* calculateBackoff is called with attempts -MaxAttempt..MaxAttempt, whole and
\* half numbers, base delays 0..MaxBaseDelay and caps 0..MaxMaxDelay, and
\* with the default delays.
MaxAttempt == 4
MaxBaseDelay == 3
MaxMaxDelay == 8

\* fetchWithRetry and shouldRetry are called with maxRetries 0..MaxRetries.
MaxRetries == 3

\* Number of getSessionId calls made in one behaviour.
MaxCalls == 2
\* The session clock advances in steps of SessionStep ms, MaxSessionTicks
\* times at most.
SessionStep == 300000
MaxSessionTicks == 1

Calls == 1..MaxCalls

\* The client ids (getClientIP gives one per caller).
Clients == {"a", "b"}

\* What the work function handed to enqueue does when it is invoked: it
\* returns a promise that fulfils, returns a promise that rejects, or throws
\* before returning a promise (task: () => Promise<T> allows all three).
WorkKinds == {"resolves", "rejects", "throws"}

\* The error a rejected enqueue carries (class QueueFullError); the other
\* outcomes a promise carries are named by the task whose work produced them.
QueueFullError == -1

VARIABLES
    maxConcurrent,  \* config.maxConcurrent
    maxQueueSize,   \* config.maxQueueSize
    queue,          \* this.queue: the QueuedTasks waiting, as task ids
    activeCount,    \* this.activeCount
    submitted,      \* number of enqueue calls so far; call k submits task k
    work,           \* work[t]: what task t's work function does
    phase,          \* phase[t]: where task t is in its life
    invoked,        \* invoked[t]: how often t's work function was called
    startOrder,     \* the tasks in the order their work function was called
    released,       \* released[t]: activeCount-- has run for t
    route,          \* route[t]: run by executeTask ("direct") or queued first
    promise,        \* promise[t]: state of the promise made for call t (the
                    \* one executeTask returns, or the one holding the
                    \* QueuedTask's resolve and reject)
    carries,        \* carries[t]: whose outcome that promise settled with
    uncaught        \* tasks whose throw ended as an unhandled rejection

queueVars ==
    <<maxConcurrent, maxQueueSize, queue, activeCount, submitted, work,
      phase, route, invoked, startOrder, released, promise, carries,
      uncaught>>

\* The rate limiter (class RateLimiter).  Times are in milliseconds.
VARIABLES
    enabled,        \* config.enabled
    windowMs,       \* config.windowMs
    maxRequests,    \* config.maxRequests
    requests,       \* this.requests: client -> its stored timestamps
    now,            \* Date.now()
    recorded,       \* recorded[c]: the times of all recordRequest(c) calls
    unswept,        \* what this.requests would hold had cleanup() never run
    lastCall,       \* the last call made on the limiter and what it returned
    hint            \* hint[c]: the last denial of c at its quota, if no
                    \* recordRequest(c) came after it

limiterVars ==
    <<enabled, windowMs, maxRequests, requests, now, recorded, unswept,
      lastCall, hint>>

\* The backoff calculator: the arguments and the result of the last call.
VARIABLES
    backoff

backoffVars == <<backoff>>

\* The retry handler: the arguments and the result of the last shouldRetry
\* call, and one invocation of fetchWithRetry.
VARIABLES
    decision, retry

retryVars == <<decision, retry>>

\* The session manager (src/session.ts): the module variable cachedSession,
\* the clock Date.now() reads, the getSessionId calls made so far, and what
\* is remembered about them for the claims.
VARIABLES
    cachedSession,  \* null (NoEntry) or [sessionId, expiresAt]
    clock,          \* Date.now(), in ms
    calls,          \* call id -> the state of that getSessionId call
    started,        \* the number of getSessionId calls made
    cachedBy,       \* the call whose refresh wrote cachedSession, 0 if none
    cleared         \* clearSessionCache() ran and no getSessionId call since

sessionVars == <<cachedSession, clock, calls, started, cachedBy, cleared>>

\* validateApiKey (src/auth.ts): the last call made and what it returned.
VARIABLES
    auth            \* [provided, configured, result, called]

authVars == <<auth>>

\* The statistics collector (src/stats.ts): the stats object, and what is
\* remembered about the calls for the claims.
VARIABLES
    stats,          \* [totalRequests, successCount, errorCount,
                    \*  totalResponseTime, modelCounts]
    recordedFor,    \* model -> recordRequest calls for it since the reset
    statsCalls,     \* the number of recordRequest and reset calls made
    lastStatsCall   \* "none", "recordRequest" or "reset"

statsVars == <<stats, recordedFor, statsCalls, lastStatsCall>>

\* The requests a server guards with the limiter: for each, how far its
\* check-then-record sequence has come.
VARIABLES
    handler         \* request -> [pc, client]

handlerVars == <<handler>>

vars ==
    <<queueVars, limiterVars, backoffVars, retryVars, sessionVars,
      authVars, statsVars, handlerVars>>

\* The part of the state the queue's methods read and write, as one value,
\* so that a method calling another composes.  thrown is the task whose work
\* function threw out of the method (0: the method returned normally).
Here ==
    [queue |-> queue, activeCount |-> activeCount, phase |-> phase,
     route |-> route, invoked |-> invoked, startOrder |-> startOrder,
     released |-> released,
     promise |-> promise, carries |-> carries, thrown |-> 0]

Become(s) ==
    /\ queue' = s.queue
    /\ activeCount' = s.activeCount
    /\ phase' = s.phase
    /\ route' = s.route
    /\ invoked' = s.invoked
    /\ startOrder' = s.startOrder
    /\ released' = s.released
    /\ promise' = s.promise
    /\ carries' = s.carries

\* ------------------------------------------------------- the queue's tests
\* enqueue: this.queue.length >= this.config.maxQueueSize
QueueIsFullOffByOne(s) == Len(s.queue) > maxQueueSize
QueueIsFull(s) == Len(s.queue) >= maxQueueSize

\* canAccept()
CanAccept(s) == Len(s.queue) < maxQueueSize

\* enqueue: this.activeCount < this.config.maxConcurrent
SlotFreeOneTooMany(s) == s.activeCount <= maxConcurrent
SlotFreeOneTooFew(s) == s.activeCount + 1 < maxConcurrent
SlotFree(s) == s.activeCount < maxConcurrent

\* hasCapacity()
HasCapacity(s) == s.activeCount < maxConcurrent

\* getStatus()
GetStatus(s) == [pending |-> Len(s.queue), active |-> s.activeCount]

\* processNext: const next = this.queue.shift()
ShiftFromTail(q) == [next |-> q[Len(q)], rest |-> SubSeq(q, 1, Len(q) - 1)]
ShiftKeepsHead(q) == [next |-> Head(q), rest |-> q]
Shift(q) == [next |-> Head(q), rest |-> Tail(q)]

\* Calling a work function: it is counted and its start is recorded.
Invoke(s, t) ==
    [s EXCEPT !.invoked[t] = @ + 1, !.startOrder = Append(@, t)]

\* Settling the promise enqueue returned for task t.
Settle(s, t, how, whose) ==
    [s EXCEPT !.promise[t] = how, !.carries[t] = whose]

\* processNext(): promote the head of the queue if a slot is free.  A head
\* whose work function throws leaves the method by that exception, after
\* activeCount++ and before any callback is attached to it.
ProcessNext(s) ==
    IF Len(s.queue) = 0 \/ s.activeCount >= maxConcurrent
    THEN s
    ELSE LET sh == Shift(s.queue)
             n  == sh.next
             s1 == Invoke([s EXCEPT !.queue = sh.rest,
                                    !.activeCount = @ + 1], n)
         IN  IF work[n] = "throws"
             THEN [s1 EXCEPT !.phase[n] = "abandoned", !.thrown = n]
             ELSE [s1 EXCEPT !.phase[n] = "running"]

\* The finally block of executeTask and the finally callback of processNext:
\* this.activeCount--; this.processNext();
ReleaseKeepingSlot(s, t) ==
    ProcessNext([s EXCEPT !.released[t] = TRUE, !.phase[t] = "finished"])
ReleaseWithoutProcessNext(s, t) ==
    [s EXCEPT !.activeCount = @ - 1,
              !.released[t] = TRUE,
              !.phase[t] = "finished"]
Release(s, t) ==
    ProcessNext([s EXCEPT !.activeCount = @ - 1,
                          !.released[t] = TRUE,
                          !.phase[t] = "finished"])

\* How an executeTask call for t ends once its finally block has run: with
\* t's own outcome, unless processNext threw out of the finally block, which
\* replaces it.
EndExecuteTask(s, t, how) ==
    IF s.thrown # 0
    THEN Settle(s, t, "rejected", s.thrown)
    ELSE Settle(s, t, how, t)

\* executeTask(task) up to its await: activeCount++, then the work function
\* is called; one that throws runs the finally block at once.
ExecuteTask(s, t, w) ==
    LET s1 == Invoke([s EXCEPT !.activeCount = @ + 1,
                               !.route[t] = "direct"], t)
    IN  IF w = "throws"
        THEN EndExecuteTask(Release(s1, t), t, "rejected")
        ELSE [s1 EXCEPT !.phase[t] = "running"]

\* enqueue, queue full: throw new QueueFullError("Queue is full")
RejectButPush(s, t) ==
    Settle([s EXCEPT !.phase[t] = "rejected", !.queue = Append(@, t)],
           t, "rejected", QueueFullError)
Reject(s, t) ==
    Settle([s EXCEPT !.phase[t] = "rejected"], t, "rejected", QueueFullError)

\* enqueue, no free slot: this.queue.push(queuedTask)
Push(s, t) ==
    [s EXCEPT !.queue = Append(@, t), !.phase[t] = "pending",
              !.route[t] = "queued"]

\* ------------------------------------------------- the other parts, idle
\* The Map this.requests with no key.
EmptyMap == [c \in {} |-> <<>>]

\* No call made yet on the limiter.
NoCall == [op |-> "none", client |-> "", result |-> {}]

\* The limiter while a specification of another part runs: never called.
LimiterIdle ==
    /\ enabled = FALSE
    /\ windowMs = TimeStep
    /\ maxRequests = 0
    /\ requests = EmptyMap
    /\ now = 0
    /\ recorded = [c \in Clients |-> <<>>]
    /\ unswept = EmptyMap
    /\ lastCall = NoCall
    /\ hint = [c \in Clients |-> {}]

\* The backoff calculator while a specification of another part runs.
BackoffIdle ==
    backoff = [baseDelay |-> 0, maxDelay |-> 0, halves |-> 0, delay |-> 0,
               called |-> FALSE]

\* No response and no failure: fetchWithRetry has not ended.
NoOutcome == [kind |-> "none", status |-> 0, retries |-> 0, cause |-> "none"]

\* An invocation of fetchWithRetry that has not begun.
NotCalled(maxRetries, baseDelay, maxDelay) ==
    [maxRetries |-> maxRetries, baseDelay |-> baseDelay,
     maxDelay |-> maxDelay, pc |-> "idle", attempt |-> 0, lastError |-> -1,
     lastStatus |-> 0, fetches |-> 0, waits |-> <<>>, seen |-> <<>>,
     outcome |-> NoOutcome]

\* cachedSession = null
NoEntry == [sessionId |-> "", expiresAt |-> 0, present |-> FALSE]

\* A getSessionId call that has not been made.
NoSessionCall ==
    [pc |-> "none", forceRefresh |-> FALSE, attempt |-> 0, lastError |-> -1,
     fetches |-> 0, sleeps |-> <<>>, hit |-> FALSE, result |-> "",
     completedAt |-> -1]

\* The session manager while a specification of another part runs.
SessionIdle ==
    /\ cachedSession = NoEntry
    /\ clock = 0
    /\ calls = [c \in Calls |-> NoSessionCall]
    /\ started = 0
    /\ cachedBy = 0
    /\ cleared = FALSE

\* string | null: null carries no text.
Null == [isNull |-> TRUE, text |-> ""]
Str(text) == [isNull |-> FALSE, text |-> text]

\* validateApiKey while a specification of another part runs: never called.
AuthIdle ==
    auth = [provided |-> Null, configured |-> Null, result |-> FALSE,
            called |-> FALSE]

\* The model names requests carry: two of the upstream's, and one that is
\* also the name of a property every object literal inherits.
Models == {"claude-4-sonnet", "gpt-4o", "constructor"}

\* The stats object the constructor and reset() build (startTime, which
\* only the uptime of getStats reads, is left out); modelCounts {} has no
\* own property.
FreshStats ==
    [totalRequests |-> 0, successCount |-> 0, errorCount |-> 0,
     totalResponseTime |-> 0, modelCounts |-> EmptyMap]

\* The collector while a specification of another part runs.
StatsIdle ==
    /\ stats = FreshStats
    /\ recordedFor = [m \in Models |-> 0]
    /\ statsCalls = 0
    /\ lastStatsCall = "none"

\* The requests handled at the same time.
MaxHandled == 3
Handled == 1..MaxHandled

\* No request has arrived.
HandlerIdle == handler = [r \in Handled |-> [pc |-> "new", client |-> ""]]

\* The retry handler while a specification of another part runs.
RetryIdle ==
    /\ decision = [status |-> 0, attempt |-> 0, maxRetries |-> 0,
                   result |-> FALSE, called |-> FALSE]
    /\ retry = NotCalled(0, 0, 0)

\* ---------------------------------------------------------------- actions
QueueInit ==
    /\ maxConcurrent \in 1..MaxConcurrent
    /\ maxQueueSize \in 0..MaxQueueSize
    /\ queue = <<>>
    /\ activeCount = 0
    /\ submitted = 0
    /\ work = [t \in Tasks |-> "none"]
    /\ phase = [t \in Tasks |-> "unsubmitted"]
    /\ route = [t \in Tasks |-> "none"]
    /\ invoked = [t \in Tasks |-> 0]
    /\ startOrder = <<>>
    /\ released = [t \in Tasks |-> FALSE]
    /\ promise = [t \in Tasks |-> "none"]
    /\ carries = [t \in Tasks |-> 0]
    /\ uncaught = {}

\* The queue while a specification of another part runs: never called.
QueueIdle == QueueInit /\ maxConcurrent = 1 /\ maxQueueSize = 0

\* A queue is constructed; the limiter and the backoff calculator are idle.
QueueStart ==
    QueueInit /\ LimiterIdle /\ BackoffIdle /\ RetryIdle /\ SessionIdle
    /\ AuthIdle
    /\ StatsIdle
    /\ HandlerIdle

\* enqueue(task): the call that submits task submitted + 1.
Enqueue(w) ==
    /\ submitted < MaxTasks
    /\ LET t  == submitted + 1
           s0 == [Here EXCEPT !.promise[t] = "unsettled"]
       IN  /\ submitted' = t
           /\ work' = [work EXCEPT ![t] = w]
           /\ Become(IF QueueIsFull(s0) THEN Reject(s0, t)
                     ELSE IF SlotFree(s0) THEN ExecuteTask(s0, t, w)
                     ELSE Push(s0, t))
    /\ UNCHANGED <<maxConcurrent, maxQueueSize, uncaught>>
    /\ UNCHANGED <<limiterVars, backoffVars, retryVars, sessionVars,
                   authVars, statsVars, handlerVars>>

\* executeTask resumes after `await task()`: the finally block runs and the
\* promise of the call settles, all in one job.
ExecuteTaskResumes(t) ==
    /\ phase[t] = "running"
    /\ route[t] = "direct"
    /\ Become(EndExecuteTask(Release(Here, t), t,
                             IF work[t] = "resolves" THEN "fulfilled"
                             ELSE "rejected"))
    /\ UNCHANGED <<maxConcurrent, maxQueueSize, submitted, work, uncaught>>
    /\ UNCHANGED <<limiterVars, backoffVars, retryVars, sessionVars,
                   authVars, statsVars, handlerVars>>

\* processNext, .then((result) => { ...; next.resolve(result) })
ThenCallback(t) ==
    /\ phase[t] = "running"
    /\ route[t] = "queued"
    /\ work[t] = "resolves"
    /\ Become(Settle([Here EXCEPT !.phase[t] = "delivered"],
                     t, "fulfilled", t))
    /\ UNCHANGED <<maxConcurrent, maxQueueSize, submitted, work, uncaught>>
    /\ UNCHANGED <<limiterVars, backoffVars, retryVars, sessionVars,
                   authVars, statsVars, handlerVars>>

\* processNext, .catch((error) => { next.reject(error) })
CatchCallback(t) ==
    /\ phase[t] = "running"
    /\ route[t] = "queued"
    /\ work[t] = "rejects"
    /\ Become(Settle([Here EXCEPT !.phase[t] = "delivered"],
                     t, "rejected", t))
    /\ UNCHANGED <<maxConcurrent, maxQueueSize, submitted, work, uncaught>>
    /\ UNCHANGED <<limiterVars, backoffVars, retryVars, sessionVars,
                   authVars, statsVars, handlerVars>>

\* processNext, .finally(() => { this.activeCount--; this.processNext() }):
\* a later job than the then/catch callback, so the caller whose promise was
\* settled there can run before it.  An exception leaving this callback
\* rejects a promise nobody handles; the queue's state stays as it is then.
FinallyCallback(t) ==
    /\ phase[t] = "delivered"
    /\ LET s == Release(Here, t)
       IN  /\ Become(s)
           /\ uncaught' = IF s.thrown # 0 THEN uncaught \cup {s.thrown}
                          ELSE uncaught
    /\ UNCHANGED <<maxConcurrent, maxQueueSize, submitted, work>>
    /\ UNCHANGED <<limiterVars, backoffVars, retryVars, sessionVars,
                   authVars, statsVars, handlerVars>>

QueueNext ==
    \/ \E w \in WorkKinds : Enqueue(w)
    \/ \E t \in Tasks : ExecuteTaskResumes(t)
    \/ \E t \in Tasks : ThenCallback(t)
    \/ \E t \in Tasks : CatchCallback(t)
    \/ \E t \in Tasks : FinallyCallback(t)

QueueSpec ==
    QueueStart /\ [][QueueNext]_vars

\* Every callback that is due runs: the work of a running task settles and
\* the job queue runs each reaction.  Nothing obliges the host to call
\* enqueue again.
QueueFairness ==
    \A t \in Tasks :
        /\ WF_vars(ExecuteTaskResumes(t))
        /\ WF_vars(ThenCallback(t))
        /\ WF_vars(CatchCallback(t))
        /\ WF_vars(FinallyCallback(t))

QueueFairSpec == QueueSpec /\ QueueFairness

\* ------------------------------------------------------------ vocabulary
Submitted == 1..submitted
InQueue(t) == \E i \in 1..Len(queue) : queue[i] = t
Settled(t) == promise[t] \in {"fulfilled", "rejected"}
Accepted(t) == t \in Submitted /\ phase[t] # "rejected"
\* Work functions the queue has started and whose end it has not handled.
InFlight == {t \in Tasks : phase[t] \in {"running", "delivered"}}
Pending == {t \in Tasks : phase[t] = "pending"}
\* This step is the enqueue call that submits task submitted'.
EnqueueStep == submitted' = submitted + 1
Min(a, b) == IF a <= b THEN a ELSE b
Max(a, b) == IF a >= b THEN a ELSE b
Increasing(q) == \A i, j \in 1..Len(q) : i < j => q[i] < q[j]
WasQueued(t) == route[t] = "queued"
Position(t) == CHOOSE i \in 1..Len(startOrder) : startOrder[i] = t

\* ----------------------------------------------------------------- claims
\* C1: in every state reachable by enqueue calls and task completions
\* (successful or failed) the active count is at most maxConcurrent and the
\* pending sequence holds at most maxQueueSize tasks.
C1_CountsBounded ==
    /\ GetStatus(Here).active <= maxConcurrent
    /\ GetStatus(Here).pending <= maxQueueSize

\* Both limits are met at once, after a task has failed and one has finished.
C1_Witness ==
    /\ activeCount = maxConcurrent
    /\ Len(queue) = maxQueueSize
    /\ maxQueueSize >= 1
    /\ \E t \in Tasks : phase[t] = "finished" /\ work[t] = "rejects"
    /\ \E t \in Tasks : phase[t] = "finished" /\ work[t] = "resolves"

\* C2: enqueue fails with QueueFullError exactly when the pending count has
\* reached maxQueueSize at the time of the call, that is exactly when
\* canAccept() is false; and counting from an idle queue with no completion
\* in between, the tasks after the first maxConcurrent + maxQueueSize ones
\* are the rejected ones (with maxQueueSize = 0 no slot is ever taken and
\* every one is rejected).
C2_RejectsExactlyWhenFull ==
    /\ [][EnqueueStep =>
            LET t == submitted'
                failed == /\ phase'[t] = "rejected"
                          /\ promise'[t] = "rejected"
                          /\ carries'[t] = QueueFullError
            IN  /\ failed <=> Len(queue) >= maxQueueSize
                /\ failed <=> ~CanAccept(Here)
                /\ failed \/ carries'[t] # QueueFullError]_vars
    /\ []((\A u \in Tasks : ~released[u]) =>
            \A t \in Submitted :
                phase[t] = "rejected" <=>
                    (maxQueueSize = 0 \/ t > maxConcurrent + maxQueueSize))

\* maxConcurrent tasks are active, maxQueueSize >= 1 further ones were
\* accepted and the next one was rejected.
C2_Witness ==
    /\ maxQueueSize >= 1
    /\ submitted = maxConcurrent + maxQueueSize + 1
    /\ activeCount = maxConcurrent
    /\ Len(queue) = maxQueueSize
    /\ phase[submitted] = "rejected"
    /\ \A t \in 1..(submitted - 1) : phase[t] \in {"running", "pending"}

\* C3: dispatch is strict FIFO: of two tasks that were both placed in the
\* pending sequence the one enqueued first starts first, for every
\* maxConcurrent >= 1 and every order of completions; with maxConcurrent = 1
\* all tasks start in the order they were enqueued.
C3_StrictFifo ==
    /\ Increasing(queue)
    /\ Increasing(SelectSeq(startOrder, WasQueued))
    /\ \A t, u \in Tasks :
        (WasQueued(t) /\ WasQueued(u) /\ t < u /\ invoked[u] > 0)
            => invoked[t] > 0 /\ Position(t) < Position(u)
    /\ maxConcurrent = 1 => Increasing(startOrder)

\* Two slots, three tasks left the pending sequence, and a task that started
\* later completed while one that started earlier is still running.
C3_Witness ==
    /\ maxConcurrent = 2
    /\ Len(SelectSeq(startOrder, WasQueued)) >= 3
    /\ \E a, b \in Tasks :
        /\ invoked[a] > 0 /\ invoked[b] > 0
        /\ Position(a) < Position(b)
        /\ phase[a] = "running" /\ phase[b] = "finished"

\* The steps a task's life may take.  "abandoned" is an active task whose
\* work function threw when processNext called it.
LifeSteps ==
    {<<"unsubmitted", "rejected">>, <<"unsubmitted", "pending">>,
     <<"unsubmitted", "running">>, <<"unsubmitted", "finished">>,
     <<"pending", "running">>, <<"pending", "abandoned">>,
     <<"running", "delivered">>, <<"running", "finished">>,
     <<"delivered", "finished">>}

C5_NoStarvation ==
    \A t \in Tasks :
        (phase[t] = "pending") ~> (invoked[t] > 0 /\ Settled(t))

\* C6: a task whose work function fails (it returns a promise that rejects,
\* or it throws) still frees its slot: once the failure has been handled the
\* active count was decremented for the task, its failure was delivered to
\* the caller that enqueued it and to nobody else, and no slot is held by a
\* task that is not in flight.
C6_FailureFreesSlot ==
    /\ \A t \in Tasks :
        (work[t] \in {"rejects", "throws"}
         /\ phase[t] \in {"finished", "abandoned"})
            => /\ released[t]
               /\ promise[t] = "rejected" /\ carries[t] = t
               /\ \A u \in Tasks \ {t} : carries[u] # t
    /\ activeCount = Cardinality(InFlight)

\* C7, as stated: for every configuration, whenever hasCapacity() is true an
\* enqueue starts the task's work at once, without queueing or rejecting it.
C7_CapacityAlwaysRuns ==
    [][(EnqueueStep /\ HasCapacity(Here)) =>
        LET t == submitted'
        IN  /\ invoked'[t] = 1
            /\ phase'[t] \notin {"rejected", "pending"}
            /\ queue' = queue]_vars

\* C7, amended: whenever hasCapacity() and canAccept() are both true an
\* enqueue calls the task's work function within the call, does not place it
\* in the pending sequence and does not reject it; the task then holds a slot
\* unless its work function threw at once.  When canAccept() is false
\* (always, with maxQueueSize = 0) the call is rejected whatever
\* hasCapacity() says.
C7_CapacityRunsWhenAccepted ==
    [][EnqueueStep =>
        LET t == submitted'
        IN  /\ (HasCapacity(Here) /\ CanAccept(Here)) =>
                /\ invoked'[t] = 1
                /\ startOrder' = Append(startOrder, t)
                /\ route'[t] = "direct"
                /\ phase'[t] \notin {"rejected", "pending"}
                /\ queue' = queue
                /\ work'[t] # "throws" =>
                    /\ phase'[t] = "running"
                    /\ activeCount' = activeCount + 1
            /\ (HasCapacity(Here) /\ ~CanAccept(Here)) =>
                phase'[t] = "rejected"
            /\ (~HasCapacity(Here) /\ CanAccept(Here)) =>
                phase'[t] = "pending"]_vars

\* A task ran at once in a slot that an earlier, queued task had freed.
C7_Witness ==
    \E t, u \in Tasks :
        /\ u < t
        /\ WasQueued(u) /\ phase[u] = "finished"
        /\ route[t] = "direct" /\ phase[t] = "running"
        /\ maxConcurrent >= 2

\* C8: an enqueue rejected with QueueFullError leaves the pending sequence
\* and the active count as they were and never calls the rejected work
\* function.
C8_RejectionChangesNothing ==
    /\ [][(EnqueueStep /\ phase'[submitted'] = "rejected") =>
            /\ queue' = queue
            /\ activeCount' = activeCount
            /\ invoked' = invoked
            /\ startOrder' = startOrder
            /\ GetStatus(Here)' = GetStatus(Here)]_vars
    /\ [](\A t \in Tasks :
            phase[t] = "rejected" => invoked[t] = 0 /\ ~InQueue(t))

\* A call was rejected while tasks were active and pending, and the queue
\* went on to finish a task that was pending then.
C8_Witness ==
    \E t, u \in Tasks :
        /\ u < t
        /\ phase[t] = "rejected"
        /\ WasQueued(u) /\ phase[u] = "finished"
        /\ maxQueueSize >= 1

\* C9: getStatus is exact: active is the number of work functions started
\* and not finished, pending the number of accepted tasks not started; after
\* n accepted enqueues and no completion active = min(n, maxConcurrent) and
\* pending = max(0, n - maxConcurrent); once every submitted task has
\* settled the status is {pending: 0, active: 0}.
C9_StatusExact ==
    LET n == Cardinality({t \in Tasks : Accepted(t)})
    IN  /\ GetStatus(Here).active = Cardinality(InFlight)
        /\ GetStatus(Here).pending = Cardinality(Pending)
        /\ (\A t \in Tasks : ~released[t]) =>
            /\ GetStatus(Here).active = Min(n, maxConcurrent)
            /\ GetStatus(Here).pending = Max(0, n - maxConcurrent)
        /\ (\A t \in Submitted : Settled(t)) =>
            GetStatus(Here) = [pending |-> 0, active |-> 0]

\* C10: the promise of an accepted enqueue settles with the outcome of that
\* call's own work function, its value or its error, and never with another
\* task's, whether the task ran at once or was queued first.
C10_OwnOutcome ==
    \A t \in Tasks :
        (Accepted(t) /\ Settled(t)) =>
            /\ carries[t] = t
            /\ promise[t] = "fulfilled" <=> work[t] = "resolves"

\* =========================================================================
\* The rate limiter (src/auth.ts, class RateLimiter)
\* =========================================================================
\* Math.ceil(retryAfterMs / 1000): milliseconds in a second.
MsPerSecond == 1000

\* Math.ceil(x / d) and Math.floor(x / d) for integers x and d > 0.
CeilDiv(x, d) == -((-x) \div d)
FloorDiv(x, d) == x \div d

\* this.requests.get(clientId) || []
Get(reqs, c) == IF c \in DOMAIN reqs THEN reqs[c] ELSE <<>>

\* this.requests.set(clientId, list)
Put(reqs, c, list) ==
    [x \in DOMAIN reqs \cup {c} |-> IF x = c THEN list ELSE reqs[x]]

\* list.filter(r => r.timestamp > windowStart)
Filter(list, windowStart) ==
    LET Keep(ts) == ts > windowStart IN SelectSeq(list, Keep)

\* checkLimit: the request the retry hint is computed from.
NewestRequest(list) == list[Len(list)]
OldestRequest(list) == list[1]

\* checkLimit: retryAfterMs, from the filtered list.
RetryAfterMs(list, t) ==
    IF Len(list) > 0 THEN (OldestRequest(list) + windowMs) - t
    ELSE windowMs

\* checkLimit: Math.max(1, Math.ceil(retryAfterMs / 1000))
RetryAfterFloor(ms) == Max(1, FloorDiv(ms, MsPerSecond))
RetryAfter(ms) == Max(1, CeilDiv(ms, MsPerSecond))

\* checkLimit: requestCount >= this.config.maxRequests
OverLimitOffByOne(count) == count > maxRequests
OverLimit(count) == count >= maxRequests

\* checkLimit(clientId) at time t: what it returns.  retryAfter is {} when
\* the field is absent.
CheckLimitResult(reqs, c, t) ==
    IF ~enabled
    THEN [allowed |-> TRUE, remaining |-> maxRequests, retryAfter |-> {}]
    ELSE LET list == Filter(Get(reqs, c), t - windowMs)
             requestCount == Len(list)
             remaining == Max(0, maxRequests - requestCount)
         IN  IF OverLimit(requestCount)
             THEN [allowed |-> FALSE, remaining |-> 0,
                   retryAfter |-> {RetryAfter(RetryAfterMs(list, t))}]
             ELSE [allowed |-> TRUE, remaining |-> remaining,
                   retryAfter |-> {}]

\* checkLimit(clientId): what this.requests holds afterwards.  The filtered
\* list is a local value: nothing is stored.
StoreAfterCheckPruned(reqs, c, t) ==
    IF enabled /\ c \in DOMAIN reqs
    THEN Put(reqs, c, Filter(reqs[c], t - windowMs))
    ELSE reqs
StoreAfterCheck(reqs, c, t) == reqs

\* recordRequest(clientId) at time t: what this.requests holds afterwards.
StoreAfterRecordSharedKey(reqs, c, t) ==
    IF ~enabled THEN reqs
    ELSE Put(reqs, "a", Append(Filter(Get(reqs, "a"), t - windowMs), t))
StoreAfterRecordWhenDisabled(reqs, c, t) ==
    Put(reqs, c, Append(Filter(Get(reqs, c), t - windowMs), t))
StoreAfterRecord(reqs, c, t) ==
    IF ~enabled THEN reqs
    ELSE Put(reqs, c, Append(Filter(Get(reqs, c), t - windowMs), t))

\* getRequestCount(clientId) at time t.
GetRequestCountStored(reqs, c, t) ==
    IF ~enabled THEN 0 ELSE Len(Get(reqs, c))
GetRequestCount(reqs, c, t) ==
    IF ~enabled THEN 0 ELSE Len(Filter(Get(reqs, c), t - windowMs))

\* cleanup() at time t: what this.requests holds afterwards.
StoreAfterCleanupByOldest(reqs, t) ==
    LET kept == {c \in DOMAIN reqs : OldestRequest(reqs[c]) > t - windowMs}
    IN  [c \in kept |-> reqs[c]]
StoreAfterCleanupKeepingEmpty(reqs, t) ==
    [c \in DOMAIN reqs |-> Filter(reqs[c], t - windowMs)]
StoreAfterCleanup(reqs, t) ==
    LET valid(c) == Filter(reqs[c], t - windowMs)
        kept == {c \in DOMAIN reqs : Len(valid(c)) # 0}
    IN  [c \in kept |-> valid(c)]

\* The recordRequest(c) calls made so far whose time is newer than
\* now - windowMs, counted from the history of the calls.
RecordedInWindow(c) ==
    Cardinality({i \in 1..Len(recorded[c]) : recorded[c][i] > now - windowMs})

\* The number of recordRequest calls made so far.
Records == Len(recorded["a"]) + Len(recorded["b"])

LimiterInit ==
    /\ enabled \in BOOLEAN
    /\ windowMs \in {TimeStep * k : k \in 1..MaxWindowSteps}
    /\ maxRequests \in 0..MaxMaxRequests
    /\ requests = EmptyMap
    /\ now = 0
    /\ recorded = [c \in Clients |-> <<>>]
    /\ unswept = EmptyMap
    /\ lastCall = NoCall
    /\ hint = [c \in Clients |-> {}]

\* Time passes.  Date.now() never goes back.
Tick ==
    /\ now + TimeStep <= MaxTicks * TimeStep
    /\ now' = now + TimeStep
    /\ UNCHANGED <<enabled, windowMs, maxRequests, requests, recorded,
                   unswept, lastCall, hint>>
    /\ UNCHANGED <<queueVars, backoffVars, retryVars, sessionVars, authVars,
                   statsVars, handlerVars>>

\* checkLimit(c).  A denial met with exactly maxRequests requests in the
\* window is remembered as c's hint.
CheckLimit(c) ==
    LET result == CheckLimitResult(requests, c, now)
        atQuota == RecordedInWindow(c) = maxRequests
    IN  /\ lastCall' = [op |-> "checkLimit", client |-> c,
                        result |-> {result}]
        /\ requests' = StoreAfterCheck(requests, c, now)
        /\ hint' = IF enabled /\ ~result.allowed /\ atQuota
                   THEN [hint EXCEPT ![c] =
                            {[at |-> now, retryAfter |-> r] :
                                r \in result.retryAfter}]
                   ELSE hint
        /\ UNCHANGED <<enabled, windowMs, maxRequests, now, recorded,
                       unswept>>
        /\ UNCHANGED <<queueVars, backoffVars, retryVars, sessionVars,
                       authVars, statsVars, handlerVars>>

\* recordRequest(c)
RecordRequest(c) ==
    /\ Records < MaxRecords
    /\ requests' = StoreAfterRecord(requests, c, now)
    /\ unswept' = StoreAfterRecord(unswept, c, now)
    /\ recorded' = [recorded EXCEPT ![c] = Append(@, now)]
    /\ lastCall' = [op |-> "recordRequest", client |-> c, result |-> {}]
    /\ hint' = [hint EXCEPT ![c] = {}]
    /\ UNCHANGED <<enabled, windowMs, maxRequests, now>>
    /\ UNCHANGED <<queueVars, backoffVars, retryVars, sessionVars, authVars,
                   statsVars, handlerVars>>

\* getRequestCount(c)
CallGetRequestCount(c) ==
    /\ lastCall' = [op |-> "getRequestCount", client |-> c,
                    result |-> {GetRequestCount(requests, c, now)}]
    /\ UNCHANGED <<enabled, windowMs, maxRequests, requests, now, recorded,
                   unswept, hint>>
    /\ UNCHANGED <<queueVars, backoffVars, retryVars, sessionVars, authVars,
                   statsVars, handlerVars>>

\* cleanup(): by the timer startCleanup sets, or called directly.
Cleanup ==
    /\ requests' = StoreAfterCleanup(requests, now)
    /\ lastCall' = [op |-> "cleanup", client |-> "", result |-> {}]
    /\ UNCHANGED <<enabled, windowMs, maxRequests, now, recorded, unswept,
                   hint>>
    /\ UNCHANGED <<queueVars, backoffVars, retryVars, sessionVars, authVars,
                   statsVars, handlerVars>>

LimiterNext ==
    \/ Tick
    \/ \E c \in Clients : CheckLimit(c)
    \/ \E c \in Clients : RecordRequest(c)
    \/ \E c \in Clients : CallGetRequestCount(c)
    \/ Cleanup

\* A limiter is constructed; the queue and the backoff calculator are idle.
LimiterStart ==
    LimiterInit /\ QueueIdle /\ BackoffIdle /\ RetryIdle /\ SessionIdle
    /\ AuthIdle
    /\ StatsIdle
    /\ HandlerIdle

LimiterSpec == LimiterStart /\ [][LimiterNext]_vars

\* ------------------------------------------------ vocabulary of the claims
\* The last call was checkLimit(c) and it returned a denial / a permission.
Denied(c) ==
    /\ lastCall.op = "checkLimit"
    /\ lastCall.client = c
    /\ \E r \in lastCall.result : ~r.allowed
Allowed(c) ==
    /\ lastCall.op = "checkLimit"
    /\ lastCall.client = c
    /\ \E r \in lastCall.result : r.allowed

\* c has an entry in the store that is outside the window.
HoldsExpired(c) ==
    /\ c \in DOMAIN requests
    /\ \E i \in 1..Len(requests[c]) : requests[c][i] <= now - windowMs

\* C11: with the limiter enabled, checkLimit(c) returns allowed=false and
\* remaining=0 exactly when the number of recordRequest(c) calls newer than
\* now - windowMs is at least maxRequests, and otherwise allowed=true with
\* remaining = maxRequests minus that number.
C11_CheckLimitByCount ==
    enabled =>
        \A c \in Clients :
            LET count == RecordedInWindow(c)
                result == CheckLimitResult(requests, c, now)
            IN  IF count >= maxRequests
                THEN ~result.allowed /\ result.remaining = 0
                ELSE /\ result.allowed
                     /\ result.remaining = maxRequests - count

\* C11 happens: maxRequests >= 2 calls of recordRequest(c) in the window,
\* and the check that follows is denied.
C11_Witness ==
    \E c \in Clients :
        /\ enabled
        /\ maxRequests >= 2
        /\ RecordedInWindow(c) = maxRequests
        /\ Denied(c)

\* C12: with the limiter disabled, checkLimit always returns allowed=true
\* with remaining = maxRequests, recordRequest stores nothing and
\* getRequestCount is always 0, whatever calls were made.
C12_DisabledDoesNothing ==
    ~enabled =>
        /\ DOMAIN requests = {}
        /\ \A c \in Clients :
            /\ CheckLimitResult(requests, c, now) =
                   [allowed |-> TRUE, remaining |-> maxRequests,
                    retryAfter |-> {}]
            /\ GetRequestCount(requests, c, now) = 0
        /\ \A r \in lastCall.result :
               lastCall.op = "checkLimit" =>
                   r.allowed /\ r.remaining = maxRequests
        /\ lastCall.op = "getRequestCount" => lastCall.result = {0}

\* C12 happens: a disabled limiter was asked to record more requests than
\* maxRequests for one client, and then checked.
C12_Witness ==
    \E c \in Clients :
        /\ ~enabled
        /\ Len(recorded[c]) > maxRequests
        /\ Allowed(c)

\* C13: checkLimit is read-only: a call leaves the stored timestamps of every
\* client as they were, whatever it returns, so a checkLimit or
\* getRequestCount made after it at the same instant returns what it would
\* have returned before it.
C13_CheckLimitReadOnly ==
    [][\A c \in Clients :
          CheckLimit(c) =>
              /\ requests' = requests
              /\ \A d \in Clients :
                  /\ CheckLimitResult(requests', d, now') =
                         CheckLimitResult(requests, d, now)
                  /\ GetRequestCount(requests', d, now') =
                         GetRequestCount(requests, d, now)]_vars

\* C13 happens: checkLimit(c) was called while c's stored list held an
\* expired entry, and the entry is still there.
C13_Witness ==
    \E c \in Clients :
        /\ enabled
        /\ lastCall.op = "checkLimit"
        /\ lastCall.client = c
        /\ HoldsExpired(c)

\* C14: with the limiter enabled, getRequestCount(c) is the number of
\* recordRequest(c) calls whose time t satisfies t > now - windowMs: a request
\* stops counting from t + windowMs on, also while its entry is still stored.
C14_CountIsInWindow ==
    enabled =>
        \A c \in Clients :
            GetRequestCount(requests, c, now) = RecordedInWindow(c)

\* C14 happens: getRequestCount(c) was called while an expired entry of c was
\* still stored, next to one that still counts.
C14_Witness ==
    \E c \in Clients :
        /\ enabled
        /\ lastCall.op = "getRequestCount"
        /\ lastCall.client = c
        /\ HoldsExpired(c)
        /\ RecordedInWindow(c) >= 1

\* The least whole number of seconds that is no shorter than ms milliseconds.
SecondsUp(ms) ==
    CHOOSE s \in 0..Max(ms, 0) : 1000 * (s - 1) < ms /\ ms <= 1000 * s

\* The times of the recordRequest(c) calls that are inside the window, and
\* the oldest of them.
TimesInWindow(c) ==
    {recorded[c][i] : i \in {j \in 1..Len(recorded[c]) :
                                recorded[c][j] > now - windowMs}}
OldestInWindow(c) ==
    CHOOSE t \in TimesInWindow(c) : \A u \in TimesInWindow(c) : t <= u

\* C15 as stated: whenever checkLimit denies, retryAfter is
\* max(1, ceil((oldest + windowMs - now) / 1000)) with oldest the oldest
\* timestamp of the client inside the window, so that it lies between 1 and
\* ceil(windowMs / 1000); it is absent when the request is allowed.
C15_RetryAfterFromOldest ==
    enabled =>
        \A c \in Clients :
            LET result == CheckLimitResult(requests, c, now)
            IN  IF result.allowed
                THEN result.retryAfter = {}
                ELSE /\ TimesInWindow(c) # {}
                     /\ result.retryAfter =
                            {Max(1, SecondsUp(OldestInWindow(c) + windowMs
                                              - now))}
                     /\ \A r \in result.retryAfter :
                            1 <= r /\ r <= SecondsUp(windowMs)

\* C15, amended: on a denial retryAfter is computed from the oldest timestamp
\* inside the window when there is one; when there is none, which a denial
\* allows only with maxRequests = 0, it is max(1, ceil(windowMs / 1000)).
\* Either way 1 <= retryAfter <= ceil(windowMs / 1000), and retryAfter is
\* absent when the request is allowed.
C15_RetryAfterOldestOrWindow ==
    enabled =>
        \A c \in Clients :
            LET result == CheckLimitResult(requests, c, now)
                ms == IF TimesInWindow(c) # {}
                      THEN OldestInWindow(c) + windowMs - now
                      ELSE windowMs
            IN  IF result.allowed
                THEN result.retryAfter = {}
                ELSE /\ TimesInWindow(c) = {} => maxRequests = 0
                     /\ result.retryAfter = {Max(1, SecondsUp(ms))}
                     /\ \A r \in result.retryAfter :
                            1 <= r /\ r <= SecondsUp(windowMs)

\* C15 happens: checkLimit(c) denies while c's stored list starts with an
\* expired entry, so that retryAfter is computed from a later entry.
C15_Witness ==
    \E c \in Clients :
        /\ enabled
        /\ Denied(c)
        /\ HoldsExpired(c)
        /\ TimesInWindow(c) # {}
        /\ ~CheckLimitResult(requests, c, now).allowed

\* C16: a denial of checkLimit(c) at time t with retryAfter = r, met while c
\* has exactly maxRequests >= 1 timestamps in the window, is a sufficient
\* hint: with no recordRequest(c) since, checkLimit(c) is allowed at every
\* time from t + 1000 * r on.
C16_RetryHintSufficient ==
    \A c \in Clients :
        \A h \in hint[c] :
            (maxRequests >= 1 /\ now >= h.at + 1000 * h.retryAfter)
                => CheckLimitResult(requests, c, now).allowed

\* C16 happens: c was denied at its quota, waited retryAfter seconds without
\* recording, and the check made then is allowed although the old entry is
\* still stored.
C16_Witness ==
    \E c \in Clients :
        \E h \in hint[c] :
            /\ maxRequests >= 1
            /\ now >= h.at + 1000 * h.retryAfter
            /\ Allowed(c)
            /\ HoldsExpired(c)

\* C17: clients are independent: recordRequest(a) and checkLimit(a) leave the
\* stored timestamps of every other client b as they were, and with them the
\* results of checkLimit(b) and getRequestCount(b).
C17_ClientsIndependent ==
    [][\A a \in Clients :
          (RecordRequest(a) \/ CheckLimit(a)) =>
              \A b \in Clients \ {a} :
                  /\ (b \in DOMAIN requests') = (b \in DOMAIN requests)
                  /\ Get(requests', b) = Get(requests, b)
                  /\ CheckLimitResult(requests', b, now') =
                         CheckLimitResult(requests, b, now)
                  /\ GetRequestCount(requests', b, now') =
                         GetRequestCount(requests, b, now)]_vars

\* C17 happens: recordRequest(a) was called while another client b held
\* timestamps in the window.
C17_Witness ==
    \E a \in Clients :
        \E b \in Clients \ {a} :
            /\ enabled
            /\ lastCall.op = "recordRequest"
            /\ lastCall.client = a
            /\ a \in DOMAIN requests
            /\ RecordedInWindow(b) >= 1

\* C18: the sweep is transparent: whenever cleanup() has run, and however
\* often, checkLimit and getRequestCount return for every client what they
\* return on the store of a limiter that got the same calls and never swept.
C18_CleanupTransparent ==
    \A c \in Clients :
        /\ CheckLimitResult(requests, c, now) =
               CheckLimitResult(unswept, c, now)
        /\ GetRequestCount(requests, c, now) =
               GetRequestCount(unswept, c, now)

\* C18 happens: cleanup() has removed an entry while a client still has
\* timestamps in the window.
C18_Witness ==
    /\ enabled
    /\ lastCall.op = "cleanup"
    /\ \E c \in Clients :
           /\ Get(requests, c) # Get(unswept, c)
           /\ RecordedInWindow(c) >= 1

\* =========================================================================
\* The backoff calculator (src/retry.ts, calculateBackoff)
\* =========================================================================
DEFAULT_BASE_DELAY == 1000
DEFAULT_MAX_DELAY == 10000

\* Math.pow(2, n) for a whole n >= 0.
RECURSIVE Pow2(_)
Pow2(n) == IF n <= 0 THEN 1 ELSE 2 * Pow2(n - 1)

\* Math.max(0, Math.floor(attempt)), the attempt given in halves.
SafeAttemptAbs(halves) ==
    LET floor == FloorDiv(halves, 2) IN IF floor < 0 THEN -floor ELSE floor
SafeAttempt(halves) == Max(0, FloorDiv(halves, 2))

\* Math.min(delay, maxDelay)
CapMissing(delay, maxDelay) == delay
Cap(delay, maxDelay) == Min(delay, maxDelay)

\* calculateBackoff(attempt, baseDelay, maxDelay), the attempt given in halves.
CalculateBackoff(halves, baseDelay, maxDelay) ==
    LET safeAttempt == SafeAttempt(halves)
        delay == baseDelay * Pow2(safeAttempt)
    IN  Cap(delay, maxDelay)

\* The delays a caller passes: small ones and the defaults.
BaseDelays == 0..MaxBaseDelay \cup {DEFAULT_BASE_DELAY}
MaxDelays == 0..MaxMaxDelay \cup {DEFAULT_MAX_DELAY}

BackoffInit ==
    backoff \in [baseDelay : BaseDelays, maxDelay : MaxDelays, halves : {0},
                 delay : {0}, called : {FALSE}]

\* calculateBackoff(halves / 2, baseDelay, maxDelay) is called.
Calculate(halves) ==
    /\ backoff' = [backoff EXCEPT
                      !.halves = halves,
                      !.delay = CalculateBackoff(halves, backoff.baseDelay,
                                                 backoff.maxDelay),
                      !.called = TRUE]
    /\ UNCHANGED <<queueVars, limiterVars, retryVars, sessionVars, authVars,
                   statsVars, handlerVars>>

BackoffNext == \E halves \in (-2 * MaxAttempt)..(2 * MaxAttempt) :
                   Calculate(halves)

\* Calls of calculateBackoff; the queue and the limiter are idle.
BackoffStart ==
    BackoffInit /\ QueueIdle /\ LimiterIdle /\ RetryIdle /\ SessionIdle
    /\ AuthIdle
    /\ StatsIdle
    /\ HandlerIdle

BackoffSpec == BackoffStart /\ [][BackoffNext]_vars

\* ------------------------------------------------ vocabulary of the claims
\* The last call was made with a whole attempt, and which.
WholeAttempt == backoff.called /\ backoff.halves % 2 = 0
Attempt == backoff.halves \div 2

\* C19: calculateBackoff(attempt, base, max) = min(base * 2^attempt, max) for
\* every whole attempt >= 0, and for every attempt < 0 it is what attempt 0
\* gives, min(base, max); with base 1000 and max 10000 the attempts 0..4 give
\* 1000, 2000, 4000, 8000, 10000.
C19_BackoffFormula ==
    WholeAttempt =>
        /\ Attempt >= 0 =>
               backoff.delay = IF backoff.baseDelay * 2^Attempt
                                      <= backoff.maxDelay
                               THEN backoff.baseDelay * 2^Attempt
                               ELSE backoff.maxDelay
        /\ Attempt < 0 =>
               backoff.delay = CalculateBackoff(0, backoff.baseDelay,
                                                backoff.maxDelay)
        /\ (backoff.baseDelay = 1000 /\ backoff.maxDelay = 10000
                /\ Attempt \in 0..4)
               => backoff.delay =
                      <<1000, 2000, 4000, 8000, 10000>>[Attempt + 1]

\* C19 happens: the call with attempt 4 and the default delays returned the
\* cap.
C19_Witness ==
    /\ WholeAttempt
    /\ Attempt = 4
    /\ backoff.baseDelay = 1000
    /\ backoff.maxDelay = 10000
    /\ backoff.delay = 10000

\* C20: for a fixed base <= max a call with a larger attempt never returns
\* less than the call before it; no call returns more than maxDelay, and
\* with baseDelay <= maxDelay none returns less than baseDelay.
C20_BackoffMonotone ==
    [][/\ backoff'.called => backoff'.delay <= backoff'.maxDelay
       /\ (backoff'.called /\ backoff'.baseDelay <= backoff'.maxDelay)
              => backoff'.delay >= backoff'.baseDelay
       /\ (/\ backoff.called
           /\ backoff'.called
           /\ backoff.baseDelay <= backoff.maxDelay
           /\ backoff'.halves >= backoff.halves)
              => backoff'.delay >= backoff.delay]_vars

\* C20 happens: a call with an attempt of 1 or more returned a delay above
\* baseDelay and below maxDelay.
C20_Witness ==
    /\ WholeAttempt
    /\ Attempt >= 1
    /\ backoff.baseDelay < backoff.delay
    /\ backoff.delay < backoff.maxDelay

\* =========================================================================
\* The retry handler (src/retry.ts, shouldRetry and fetchWithRetry)
\* =========================================================================
DEFAULT_MAX_RETRIES == 3

\* The HTTP statuses tried; 0 stands for a network error.
Statuses == {0, 100, 199, 200, 204, 299, 302, 400, 404, 429, 499, 500, 503,
             599, 600}

\* shouldRetry: attempt >= maxRetries
Exhausted(attempt, maxRetries) == attempt >= maxRetries

\* shouldRetry: status === 0 || (status >= 500 && status < 600)
RetryableStatusThrough600(status) ==
    status = 0 \/ (status >= 500 /\ status <= 600)
RetryableStatus(status) == status = 0 \/ (status >= 500 /\ status < 600)

\* shouldRetry(status, attempt, maxRetries)
ShouldRetry(status, attempt, maxRetries) ==
    IF Exhausted(attempt, maxRetries) THEN FALSE
    ELSE RetryableStatus(status)

ShouldRetryInit ==
    decision \in [status : {0}, attempt : {0}, maxRetries : 0..MaxRetries,
                  result : {FALSE}, called : {FALSE}]

\* shouldRetry(status, attempt, decision.maxRetries) is called.
CallShouldRetry(status, attempt) ==
    /\ decision' = [decision EXCEPT
                       !.status = status,
                       !.attempt = attempt,
                       !.result = ShouldRetry(status, attempt,
                                              decision.maxRetries),
                       !.called = TRUE]
    /\ UNCHANGED retry
    /\ UNCHANGED <<queueVars, limiterVars, backoffVars, sessionVars,
                   authVars, statsVars, handlerVars>>

ShouldRetryNext ==
    \E status \in Statuses : \E attempt \in 0..MaxAttempt :
        CallShouldRetry(status, attempt)

\* Calls of shouldRetry; everything else is idle.
ShouldRetryStart ==
    /\ ShouldRetryInit
    /\ retry = NotCalled(0, 0, 0)
    /\ QueueIdle /\ LimiterIdle /\ BackoffIdle /\ SessionIdle
    /\ AuthIdle
    /\ StatsIdle
    /\ HandlerIdle

ShouldRetrySpec == ShouldRetryStart /\ [][ShouldRetryNext]_vars

\* C21: shouldRetry(status, attempt, maxRetries) is true exactly when
\* attempt < maxRetries and the status is 0 or in 500..599; it is false for
\* every status when attempt >= maxRetries, and false for every 2xx and 4xx
\* status at any attempt.
C21_ShouldRetryTable ==
    decision.called =>
        /\ decision.result =
               (/\ decision.attempt < decision.maxRetries
                /\ decision.status \in {0} \cup 500..599)
        /\ decision.attempt >= decision.maxRetries => ~decision.result
        /\ decision.status \in 200..299 \cup 400..499 => ~decision.result

\* C21 happens: a 5xx status was judged on the last attempt that may still
\* be retried, and the answer was yes.
C21_Witness ==
    /\ decision.called
    /\ decision.status = 599
    /\ decision.attempt = decision.maxRetries - 1
    /\ decision.result

\* ----------------------------------------------------------- fetchWithRetry
\* What one upstream fetch can end in: a response with this status, or (0)
\* an exception, the network error.
Outcomes == {0, 200, 302, 404, 503}

\* response.ok
Ok(status) == status >= 200 /\ status <= 299

\* response.ok || (response.status >= 400 && response.status < 500)
ReturnedAtOnce(status) == Ok(status) \/ (status >= 400 /\ status < 500)

\* The attempt number passed to calculateBackoff before attempt number
\* attempt of the loop, in halves.
BackoffArgumentSameAttempt(attempt) == 2 * attempt
BackoffArgument(attempt) == 2 * (attempt - 1)

\* return response
Return(r, status) ==
    [r EXCEPT !.pc = "returned",
              !.outcome = [kind |-> "response", status |-> status,
                           retries |-> 0, cause |-> "none"]]

\* throw new Error(`Upstream error after ${retries} retries: ...`), the cause
\* being the message of lastError or "HTTP " and lastStatus.
Throw(r, retries) ==
    [r EXCEPT !.pc = "thrown",
              !.outcome = [kind |-> "error", status |-> r.lastStatus,
                           retries |-> retries,
                           cause |-> IF r.lastError # -1 THEN "network"
                                     ELSE "HTTP"]]

\* await fetch(url, options): the call is made.
StartFetch(r) == [r EXCEPT !.pc = "fetching", !.fetches = @ + 1]

\* The loop from its condition to the next await, or past its end: the wait
\* before a retry, the fetch of the first attempt, or the throw that follows
\* the loop.
EnterIteration(r) ==
    IF r.attempt > r.maxRetries THEN Throw(r, r.maxRetries + 1)
    ELSE IF r.attempt > 0
    THEN [r EXCEPT !.pc = "waiting",
                   !.waits = Append(@, CalculateBackoff(
                                 BackoffArgument(r.attempt), r.baseDelay,
                                 r.maxDelay))]
    ELSE StartFetch(r)

\* attempt++ and the next iteration.
ContinueSameAttempt(r) == EnterIteration(r)
Continue(r) == EnterIteration([r EXCEPT !.attempt = @ + 1])

\* The error thrown from the catch block counts attempt + 1 retries.
ReportedRetries(attempt) == attempt + 1

\* The try block after fetch resolved with a response.
HandleResponseRetryingClientErrors(r, status) ==
    LET r1 == [r EXCEPT !.lastStatus = status]
    IN  IF Ok(status) \/ Exhausted(r.attempt, r.maxRetries)
        THEN Return(r1, status)
        ELSE Continue(r1)
HandleResponse(r, status) ==
    LET r1 == [r EXCEPT !.lastStatus = status]
    IN  IF ReturnedAtOnce(status) THEN Return(r1, status)
        ELSE IF ~ShouldRetry(status, r.attempt, r.maxRetries)
             THEN Return(r1, status)
        ELSE Continue(r1)

\* The catch block after fetch rejected: lastError is the error of this
\* attempt.
HandleError(r) ==
    LET r1 == [r EXCEPT !.lastError = r.attempt, !.lastStatus = 0]
    IN  IF ~ShouldRetry(0, r.attempt, r.maxRetries)
        THEN Throw(r1, ReportedRetries(r.attempt))
        ELSE Continue(r1)

FetchWithRetryInit ==
    retry \in {NotCalled(m, b, d) :
                  m \in 0..MaxRetries, b \in BaseDelays, d \in MaxDelays}

\* fetchWithRetry(url, options, maxRetries, baseDelay, maxDelay) is called
\* and runs to its first await.
CallFetchWithRetry ==
    /\ retry.pc = "idle"
    /\ retry' = EnterIteration(retry)
    /\ UNCHANGED decision
    /\ UNCHANGED <<queueVars, limiterVars, backoffVars, sessionVars,
                   authVars, statsVars, handlerVars>>

\* The timer of the backoff wait fires: the fetch of this attempt is made.
TimerFires ==
    /\ retry.pc = "waiting"
    /\ retry' = StartFetch(retry)
    /\ UNCHANGED decision
    /\ UNCHANGED <<queueVars, limiterVars, backoffVars, sessionVars,
                   authVars, statsVars, handlerVars>>

\* The fetch settles with outcome o and the function runs to its next await
\* or to its end.
FetchSettles(o) ==
    /\ retry.pc = "fetching"
    /\ LET r == [retry EXCEPT !.seen = Append(@, o)]
       IN  retry' = IF o = 0 THEN HandleError(r) ELSE HandleResponse(r, o)
    /\ UNCHANGED decision
    /\ UNCHANGED <<queueVars, limiterVars, backoffVars, sessionVars,
                   authVars, statsVars, handlerVars>>

FetchWithRetryNext ==
    \/ CallFetchWithRetry
    \/ TimerFires
    \/ \E o \in Outcomes : FetchSettles(o)

\* One invocation of fetchWithRetry; everything else is idle.
FetchWithRetryStart ==
    /\ FetchWithRetryInit
    /\ decision = [status |-> 0, attempt |-> 0, maxRetries |-> 0,
                   result |-> FALSE, called |-> FALSE]
    /\ QueueIdle /\ LimiterIdle /\ BackoffIdle /\ SessionIdle
    /\ AuthIdle
    /\ StatsIdle
    /\ HandlerIdle

FetchWithRetrySpec == FetchWithRetryStart /\ [][FetchWithRetryNext]_vars

\* Every backoff wait ends and every upstream call settles.
FetchWithRetryFairness ==
    /\ WF_vars(TimerFires)
    /\ WF_vars(\E o \in Outcomes : FetchSettles(o))

FetchWithRetryFairSpec == FetchWithRetrySpec /\ FetchWithRetryFairness

\* ------------------------------------------------ vocabulary of the claims
\* fetchWithRetry has ended, with a response or with a failure.
Ended == retry.pc \in {"returned", "thrown"}

\* A success status or a status in [400, 500).
Final(status) == status \in 200..299 \cup 400..499

\* A retryable condition: a transport error or a 5xx status.
Retryable(o) == o = 0 \/ o \in 500..599

\* C22: fetchWithRetry makes at most maxRetries + 1 upstream attempts
\* whatever the upstream outcomes are, and once called it ends with a
\* response or a failure, every upstream call and every backoff wait ending.
C22_BoundedAttempts ==
    /\ [](retry.fetches <= retry.maxRetries + 1)
    /\ (retry.pc # "idle") ~> Ended

\* C22 happens: with maxRetries = 3 all four attempts were made and failed.
C22_Witness ==
    /\ retry.maxRetries = 3
    /\ retry.fetches = 4
    /\ retry.pc = "thrown"

\* C23: as soon as an attempt yields a success status or a status in
\* [400, 500) that response is returned: it is the last outcome seen, no
\* attempt and no wait follows it, however many retries remain.
C23_FinalStatusReturned ==
    \A i \in 1..Len(retry.seen) :
        Final(retry.seen[i]) =>
            /\ i = Len(retry.seen)
            /\ retry.pc = "returned"
            /\ retry.outcome.kind = "response"
            /\ retry.outcome.status = retry.seen[i]
            /\ retry.fetches = i
            /\ Len(retry.waits) = i - 1

\* C23 happens: a 404 on the first attempt was returned with three retries
\* left.
C23_Witness ==
    /\ retry.maxRetries = 3
    /\ retry.seen = <<404>>
    /\ retry.pc = "returned"

\* C24: there is no wait before the first attempt, and the wait before the
\* k-th retry is calculateBackoff(k - 1, baseDelay, maxDelay): with the
\* defaults the waits of one invocation are 1000, 2000, 4000 ms, and they
\* never decrease.
C24_BackoffSchedule ==
    /\ Len(retry.waits) =
           IF retry.pc = "waiting" THEN retry.fetches
           ELSE Max(0, retry.fetches - 1)
    /\ \A k \in 1..Len(retry.waits) :
           /\ retry.waits[k] = CalculateBackoff(2 * (k - 1), retry.baseDelay,
                                                retry.maxDelay)
           /\ k > 1 => retry.waits[k] >= retry.waits[k - 1]
    /\ (/\ retry.maxRetries = 3
        /\ retry.baseDelay = 1000
        /\ retry.maxDelay = 10000
        /\ Len(retry.waits) = 3)
           => retry.waits = <<1000, 2000, 4000>>

\* C24 happens: with the defaults three retries were made, after waits of
\* 1, 2 and 4 seconds.
C24_Witness ==
    /\ retry.maxRetries = 3
    /\ retry.fetches = 4
    /\ retry.waits = <<1000, 2000, 4000>>

\* C25: when every permitted attempt ended in a retryable condition (each a
\* 5xx status, or each a transport error) the caller gets a failure, not a
\* response, and the failure carries the last status or error observed.
C25_ExhaustionIsFailure ==
    (/\ Ended
     /\ Len(retry.seen) = retry.maxRetries + 1
     /\ \/ \A i \in 1..Len(retry.seen) : retry.seen[i] \in 500..599
        \/ \A i \in 1..Len(retry.seen) : retry.seen[i] = 0)
        => /\ retry.outcome.kind = "error"
           /\ retry.outcome.status = retry.seen[Len(retry.seen)]
           /\ retry.seen[Len(retry.seen)] = 0 =>
                  /\ retry.outcome.cause = "network"
                  /\ retry.lastError = Len(retry.seen) - 1

\* C26: the retry count in the terminal failure is the number of retries
\* made, the attempts after the first: maxRetries when every attempt failed
\* with a transport error.
C26_RetryCountReported ==
    (/\ retry.pc = "thrown"
     /\ \A i \in 1..Len(retry.seen) : retry.seen[i] = 0)
        => /\ retry.outcome.retries = retry.fetches - 1
           /\ retry.outcome.retries = retry.maxRetries

\* =========================================================================
\* The session manager (src/session.ts)
\* =========================================================================
SESSION_CACHE_DURATION_MS == 5 * 60 * 1000

RETRY_CONFIG == [maxRetries |-> 3, baseDelayMs |-> 1000, maxDelayMs |-> 10000]

\* The session ids the Clerk API may answer with.
Tokens == {"s1", "s2"}

\* What makes one attempt of fetchSessionIdFromClerk fail: a network error
\* (0), or a response that is not ok, with this status.
FailureKinds == {0, 404}

\* calculateBackoff(attempt) of src/session.ts
SessionCalculateBackoff(attempt) ==
    Min(RETRY_CONFIG.baseDelayMs * Pow2(attempt), RETRY_CONFIG.maxDelayMs)

\* getSessionId: !forceRefresh && cachedSession && Date.now() < expiresAt
CacheHitIgnoringForce(forceRefresh, entry, t) ==
    entry.present /\ t < entry.expiresAt
CacheHitThroughExpiry(forceRefresh, entry, t) ==
    ~forceRefresh /\ entry.present /\ t <= entry.expiresAt
CacheHit(forceRefresh, entry, t) ==
    ~forceRefresh /\ entry.present /\ t < entry.expiresAt

\* getSessionId: cachedSession = {sessionId, expiresAt: Date.now() + ...}
StoreEntryKeepingExpiry(entry, sessionId, t) ==
    [sessionId |-> sessionId,
     expiresAt |-> IF entry.present THEN entry.expiresAt
                   ELSE t + SESSION_CACHE_DURATION_MS,
     present |-> TRUE]
StoreEntryKeepingOld(entry, sessionId, t) ==
    IF entry.present THEN entry
    ELSE [sessionId |-> sessionId,
          expiresAt |-> t + SESSION_CACHE_DURATION_MS, present |-> TRUE]
StoreEntry(entry, sessionId, t) ==
    [sessionId |-> sessionId, expiresAt |-> t + SESSION_CACHE_DURATION_MS,
     present |-> TRUE]

\* getSessionId when fetchSessionIdFromClerk throws: the await rethrows and
\* the assignment to cachedSession is not reached.
EntryAfterFailureEvicted(entry) == NoEntry
EntryAfterFailure(entry) == entry

\* fetchSessionIdFromClerk: attempt < RETRY_CONFIG.maxRetries - 1
RetryLeft(attempt) == attempt < RETRY_CONFIG.maxRetries - 1

\* fetchSessionIdFromClerk, the catch block: this attempt failed with kind.
\* Either it sleeps before the next attempt, or the loop ends and lastError
\* is thrown.
AttemptFailed(call, kind) ==
    LET c1 == [call EXCEPT !.lastError = kind]
    IN  IF RetryLeft(call.attempt)
        THEN [c1 EXCEPT !.pc = "sleeping",
                        !.sleeps = Append(@, SessionCalculateBackoff(
                                                 call.attempt))]
        ELSE [c1 EXCEPT !.pc = "thrown", !.attempt = @ + 1]

\* getSessionId returns sessionId: the locals of fetchSessionIdFromClerk are
\* gone, what is kept is the count of its fetches and its sleeps.
Returned(call, sessionId) ==
    [call EXCEPT !.pc = "returned", !.result = sessionId, !.attempt = 0,
                 !.lastError = -1]

SessionInit ==
    /\ cachedSession = NoEntry
    /\ clock = 0
    /\ calls = [c \in Calls |-> NoSessionCall]
    /\ started = 0
    /\ cachedBy = 0
    /\ cleared = FALSE

\* Time passes.
SessionTick ==
    /\ clock + SessionStep <= MaxSessionTicks * SessionStep
    /\ clock' = clock + SessionStep
    /\ UNCHANGED <<cachedSession, calls, started, cachedBy, cleared>>
    /\ UNCHANGED <<queueVars, limiterVars, backoffVars, retryVars, authVars,
                   statsVars, handlerVars>>

\* getSessionId(clientToken, forceRefresh) is called and runs to its first
\* await: it returns the cached id, or the first fetch of
\* fetchSessionIdFromClerk is made.
GetSessionId(forceRefresh) ==
    /\ started < MaxCalls
    /\ LET c == started + 1
           call == [NoSessionCall EXCEPT !.forceRefresh = forceRefresh]
       IN  /\ started' = c
           /\ calls' = [calls EXCEPT ![c] =
                  IF CacheHit(forceRefresh, cachedSession, clock)
                  THEN [call EXCEPT !.pc = "returned", !.hit = TRUE,
                                    !.result = cachedSession.sessionId]
                  ELSE [call EXCEPT !.pc = "fetching", !.fetches = 1]]
    /\ cleared' = FALSE
    /\ UNCHANGED <<cachedSession, clock, cachedBy>>
    /\ UNCHANGED <<queueVars, limiterVars, backoffVars, retryVars, authVars,
                   statsVars, handlerVars>>

\* The fetch of call c is answered with an active session (the response and
\* its body, two awaits, taken as one): fetchSessionIdFromClerk returns the
\* id and getSessionId stores and returns it.
FetchSucceeds(c, sessionId) ==
    /\ calls[c].pc = "fetching"
    /\ cachedSession' = StoreEntry(cachedSession, sessionId, clock)
    /\ cachedBy' = c
    /\ calls' = [calls EXCEPT ![c] =
                    [Returned(calls[c], sessionId) EXCEPT
                        !.completedAt = clock]]
    /\ UNCHANGED <<clock, started, cleared>>
    /\ UNCHANGED <<queueVars, limiterVars, backoffVars, retryVars, authVars,
                   statsVars, handlerVars>>

\* The fetch of call c fails: a sleep before the next attempt, or after the
\* last attempt the error leaves fetchSessionIdFromClerk and getSessionId.
FetchFails(c, kind) ==
    /\ calls[c].pc = "fetching"
    /\ calls' = [calls EXCEPT ![c] = AttemptFailed(calls[c], kind)]
    /\ cachedSession' =
           IF RetryLeft(calls[c].attempt) THEN cachedSession
           ELSE EntryAfterFailure(cachedSession)
    /\ UNCHANGED <<clock, started, cachedBy, cleared>>
    /\ UNCHANGED <<queueVars, limiterVars, backoffVars, retryVars, authVars,
                   statsVars, handlerVars>>

\* The sleep of call c ends: attempt++ and the next fetch is made.
SleepEnds(c) ==
    /\ calls[c].pc = "sleeping"
    /\ calls' = [calls EXCEPT ![c].pc = "fetching", ![c].attempt = @ + 1,
                              ![c].fetches = @ + 1]
    /\ UNCHANGED <<cachedSession, clock, started, cachedBy, cleared>>
    /\ UNCHANGED <<queueVars, limiterVars, backoffVars, retryVars, authVars,
                   statsVars, handlerVars>>

\* clearSessionCache()
ClearSessionCache ==
    /\ cachedSession' = NoEntry
    /\ cachedBy' = 0
    /\ cleared' = TRUE
    /\ UNCHANGED <<clock, calls, started>>
    /\ UNCHANGED <<queueVars, limiterVars, backoffVars, retryVars, authVars,
                   statsVars, handlerVars>>

SessionNext ==
    \/ SessionTick
    \/ \E forceRefresh \in BOOLEAN : GetSessionId(forceRefresh)
    \/ \E c \in Calls : \E sessionId \in Tokens : FetchSucceeds(c, sessionId)
    \/ \E c \in Calls : \E kind \in FailureKinds : FetchFails(c, kind)
    \/ \E c \in Calls : SleepEnds(c)
    \/ ClearSessionCache

\* The session manager is loaded; everything else is idle.
SessionStart ==
    SessionInit /\ QueueIdle /\ LimiterIdle /\ BackoffIdle /\ RetryIdle
    /\ AuthIdle
    /\ StatsIdle
    /\ HandlerIdle

SessionSpec == SessionStart /\ [][SessionNext]_vars

\* ------------------------------------------------ vocabulary of the claims
\* This step is a getSessionId call being made; the call it makes.
CallMade == started' = started + 1
NewCall == calls'[started']

\* This step is a refresh of call c ending with a session id / with a failure.
RefreshSucceeded(c) == calls[c].pc = "fetching" /\ calls'[c].pc = "returned"
RefreshFailed(c) == calls[c].pc = "fetching" /\ calls'[c].pc = "thrown"

\* The cache holds an entry that has not expired.
Unexpired == cachedSession.present /\ clock < cachedSession.expiresAt

\* C27: getSessionId returns the cached id without an upstream fetch exactly
\* when forceRefresh is false, an entry exists and now < expiresAt: a call
\* made after a refresh and within the TTL gets the id that refresh
\* returned, with no fetch of its own, and an expired id (now >= expiresAt)
\* is never returned from the cache.
C27_CacheHitExactly ==
    [][CallMade =>
          /\ NewCall.hit = (~NewCall.forceRefresh /\ Unexpired)
          /\ NewCall.hit =>
                 /\ NewCall.pc = "returned"
                 /\ NewCall.fetches = 0
                 /\ NewCall.result = cachedSession.sessionId
                 /\ NewCall.result = calls[cachedBy].result
                 /\ clock < cachedSession.expiresAt
          /\ ~NewCall.hit =>
                 /\ NewCall.pc = "fetching"
                 /\ NewCall.fetches = 1]_vars

\* C27 happens: the first call fetched once, the second was made within the
\* TTL and got the same id from the cache.
C27_Witness ==
    /\ calls[1].pc = "returned"
    /\ calls[1].fetches = 1
    /\ calls[2].hit
    /\ calls[2].fetches = 0
    /\ calls[2].result = calls[1].result

\* C28: a refresh that succeeds (after a miss, an expired entry or
\* forceRefresh) replaces the entry by the id just fetched with expiresAt =
\* the time the fetch completed + the cache duration, and the call returns
\* that id.
C28_RefreshReplacesEntry ==
    [][\A c \in Calls :
          RefreshSucceeded(c) =>
              /\ calls'[c].result \in Tokens
              /\ cachedSession' =
                     [sessionId |-> calls'[c].result,
                      expiresAt |-> clock' + 300000, present |-> TRUE]]_vars

\* C28 happens: a forced refresh that completed one step of the clock later
\* replaced the id of an earlier refresh by another id.
C28_Witness ==
    /\ calls[1].pc = "returned"
    /\ ~calls[1].hit
    /\ calls[2].pc = "returned"
    /\ calls[2].forceRefresh
    /\ calls[2].result # calls[1].result
    /\ cachedBy = 2
    /\ cachedSession.sessionId = calls[2].result
    /\ cachedSession.expiresAt = clock + 300000
    /\ clock > 0

C30_ClearForcesRefresh ==
    [][/\ ClearSessionCache => ~cachedSession'.present
       /\ (cleared /\ CallMade) =>
              /\ ~NewCall.hit
              /\ NewCall.fetches = 1]_vars

\* C31: the refresh follows the eligibility policy of the retry handler: a
\* credential fetch answered with a 4xx status is not retried, the refresh
\* fails at once, with no backoff wait after that answer and, when it was
\* the first answer, after a single fetch.
C31_ClientErrorNotRetried ==
    \A c \in Calls :
        calls[c].lastError \in 400..499 =>
            /\ calls[c].pc = "thrown"
            /\ Len(calls[c].sleeps) = calls[c].fetches - 1

\* C35: in every interleaving of getSessionId calls and clearSessionCache
\* the cache is empty or holds the id and the expiresAt that one successful
\* refresh wrote together: the id that refresh returned and its completion
\* time + the cache duration, never the expiry of another refresh.
C35_EntryWrittenTogether ==
    /\ ~cachedSession.present => cachedSession = NoEntry
    /\ cachedSession.present =>
           /\ cachedBy \in Calls
           /\ calls[cachedBy].pc = "returned"
           /\ ~calls[cachedBy].hit
           /\ cachedSession.sessionId = calls[cachedBy].result
           /\ cachedSession.expiresAt = calls[cachedBy].completedAt + 300000

\* C35 happens: two refreshes overlapped and completed at different times
\* with different ids; the entry is the pair of the one that completed last.
C35_Witness ==
    /\ calls[1].pc = "returned"
    /\ calls[2].pc = "returned"
    /\ ~calls[1].hit
    /\ ~calls[2].hit
    /\ calls[1].result # calls[2].result
    /\ calls[1].completedAt > calls[2].completedAt
    /\ cachedSession.present
    /\ cachedBy = 1

\* C36: when two refreshes overlap the stale result does not win: the id
\* fetched by the refresh that started earlier never overwrites the entry
\* written by a refresh that started later (calls are numbered in the order
\* they start).
C36_StaleRefreshLoses ==
    [][\A c \in Calls :
          RefreshSucceeded(c) =>
              ~(cachedSession.present /\ cachedBy > c)]_vars

\* ===================================================== validateApiKey
\* src/auth.ts 83-96.  A key is string | null; the keys tried differ in
\* case, in length and by a blank, so that "exactly equal" is tested.
KeyTexts ==
    {"", "a", "A", "ab", "aB", "Ab", "b", " ", "a ", "sk-1", "SK-1", "sk-2"}
Keys == {Null} \cup {Str(t) : t \in KeyTexts}

\* The lower-case form of a key text.
Lower(text) ==
    CASE text = "A" -> "a"
      [] text \in {"aB", "Ab"} -> "ab"
      [] text = "SK-1" -> "sk-1"
      [] OTHER -> text

\* !key : null and the empty string are falsy.
Falsy(key) == key.isNull \/ key.text = ""

SameKeyIgnoringCase(providedKey, configuredKey) ==
    /\ ~providedKey.isNull
    /\ ~configuredKey.isNull
    /\ Lower(providedKey.text) = Lower(configuredKey.text)

\* providedKey === configuredKey
SameKey(providedKey, configuredKey) ==
    /\ providedKey.isNull = configuredKey.isNull
    /\ providedKey.text = configuredKey.text

ValidateApiKey(providedKey, configuredKey) ==
    IF Falsy(configuredKey) THEN TRUE
    ELSE IF Falsy(providedKey) THEN FALSE
    ELSE SameKey(providedKey, configuredKey)

AuthInit == AuthIdle

\* One call validateApiKey(providedKey, configuredKey).
CallValidateApiKey(providedKey, configuredKey) ==
    /\ auth' = [provided |-> providedKey, configured |-> configuredKey,
                result |-> ValidateApiKey(providedKey, configuredKey),
                called |-> TRUE]
    /\ UNCHANGED <<queueVars, limiterVars, backoffVars, retryVars,
                   sessionVars, statsVars, handlerVars>>

AuthNext ==
    \E providedKey, configuredKey \in Keys :
        CallValidateApiKey(providedKey, configuredKey)

AuthStart ==
    /\ AuthInit
    /\ QueueIdle /\ LimiterIdle /\ BackoffIdle /\ RetryIdle /\ SessionIdle
    /\ StatsIdle
    /\ HandlerIdle

AuthSpec == AuthStart /\ [][AuthNext]_vars

\* ------------------------------------------------ vocabulary of the claims
\* A key is configured: PROXY_API_KEY holds some text.
KeyConfigured == ~auth.configured.isNull /\ auth.configured.text # ""
NonEmptyProvided == ~auth.provided.isNull /\ auth.provided.text # ""

\* C32: validateApiKey returns true for every provided key, null included,
\* when no key is configured; when a key is configured it returns true if
\* and only if the provided key is non-empty and is the configured key
\* character for character.
C32_ValidateApiKey ==
    auth.called =>
        /\ ~KeyConfigured => auth.result
        /\ KeyConfigured =>
               (auth.result <=>
                    /\ NonEmptyProvided
                    /\ auth.provided.text = auth.configured.text)

\* A provided key has been accepted against the configured key it equals.
C32_Witness ==
    /\ auth.called
    /\ KeyConfigured
    /\ auth.result
    /\ auth.provided.text = "aB"

\* ===================================================== StatsCollector
\* src/stats.ts 32-113.  A property of modelCounts holds a number, which
\* may be NaN.
MaxStatsCalls == 4
Durations == {100, 250}

Num(n) == [nan |-> FALSE, n |-> n]
NaN == [nan |-> TRUE, n |-> 0]

\* The properties an object literal inherits from Object.prototype, among
\* the model names: reading one of them on {} yields a function.
InheritedKeys == {"constructor"} \cap Models

\* modelCounts[model] is an own property: a number.
Own(modelCounts, model) == model \in DOMAIN modelCounts

\* !modelCounts[model] : undefined, 0 and NaN are falsy; a positive number
\* and an inherited function are truthy.
NoCountYet(modelCounts, model) ==
    IF Own(modelCounts, model)
    THEN modelCounts[model].nan \/ modelCounts[model].n = 0
    ELSE model \notin InheritedKeys

\* modelCounts[model]++ : an own number is incremented; a function read
\* through the prototype converts to NaN, and NaN + 1 is written as an own
\* property.
Incremented(modelCounts, model) ==
    IF Own(modelCounts, model)
    THEN IF modelCounts[model].nan THEN NaN
         ELSE Num(modelCounts[model].n + 1)
    ELSE NaN

\* modelCounts[model] = value : writes the own property.
SetOwn(modelCounts, model, value) ==
    [m \in DOMAIN modelCounts \cup {model} |->
        IF m = model THEN value ELSE modelCounts[m]]

\* if (!modelCounts[model]) modelCounts[model] = 0; modelCounts[model]++
CountModel(modelCounts, model) ==
    LET zeroed == IF NoCountYet(modelCounts, model)
                  THEN SetOwn(modelCounts, model, Num(0))
                  ELSE modelCounts
    IN  SetOwn(zeroed, model, Incremented(zeroed, model))

StatsInit == StatsIdle

\* recordRequest(model, duration, success)
StatsRecordRequest(model, duration, success) ==
    /\ statsCalls < MaxStatsCalls
    /\ stats' =
           [totalRequests |-> stats.totalRequests + 1,
            totalResponseTime |-> stats.totalResponseTime + duration,
            successCount |-> stats.successCount + (IF success THEN 1 ELSE 0),
            errorCount |-> stats.errorCount + (IF success THEN 0 ELSE 1),
            modelCounts |-> CountModel(stats.modelCounts, model)]
    /\ recordedFor' = [recordedFor EXCEPT ![model] = @ + 1]
    /\ statsCalls' = statsCalls + 1
    /\ lastStatsCall' = "recordRequest"
    /\ UNCHANGED <<queueVars, limiterVars, backoffVars, retryVars,
                   sessionVars, authVars, handlerVars>>

\* reset()
StatsReset ==
    /\ statsCalls < MaxStatsCalls
    /\ stats' = FreshStats
    /\ recordedFor' = [m \in Models |-> 0]
    /\ statsCalls' = statsCalls + 1
    /\ lastStatsCall' = "reset"
    /\ UNCHANGED <<queueVars, limiterVars, backoffVars, retryVars,
                   sessionVars, authVars, handlerVars>>

\* getStats().modelUsage : a copy of the own properties of modelCounts.
ModelUsage == stats.modelCounts

StatsNext ==
    \/ \E model \in Models, duration \in Durations, success \in BOOLEAN :
           StatsRecordRequest(model, duration, success)
    \/ StatsReset

StatsStart ==
    /\ StatsInit
    /\ QueueIdle /\ LimiterIdle /\ BackoffIdle /\ RetryIdle /\ SessionIdle
    /\ AuthIdle
    /\ HandlerIdle

StatsSpec == StatsStart /\ [][StatsNext]_vars

\* ------------------------------------------------ vocabulary of the claims
RECURSIVE SumOver(_, _)
SumOver(counts, models) ==
    IF models = {} THEN 0
    ELSE LET m == CHOOSE x \in models : TRUE
         IN  counts[m].n + SumOver(counts, models \ {m})

\* The sum of the per-model counts is the number n (a sum with a NaN in it
\* is no number).
CountsSumTo(n) ==
    /\ \A m \in DOMAIN ModelUsage : ~ModelUsage[m].nan
    /\ SumOver(ModelUsage, DOMAIN ModelUsage) = n

\* The count reported for a model: 0 when the map has no entry for it.
ModelCount(m) == IF m \in DOMAIN ModelUsage THEN ModelUsage[m] ELSE Num(0)

\* C33: after any sequence of recordRequest and reset calls, totalRequests
\* is successCount + errorCount and the sum of the per-model counts, each
\* model's count is the number of requests recorded for it since the last
\* reset, and right after reset every counter is 0 and the map is empty.
C33_StatsAccurate ==
    /\ stats.totalRequests = stats.successCount + stats.errorCount
    /\ CountsSumTo(stats.totalRequests)
    /\ \A m \in Models : ModelCount(m) = Num(recordedFor[m])
    /\ lastStatsCall = "reset" => stats = FreshStats

\* ============================================ RequestQueue, further claims
\* The tasks whose completion this step handles (activeCount--), and the
\* tasks whose work function this step calls.
CompletedNow == {t \in Tasks : released'[t] /\ ~released[t]}
StartedNow == {t \in Tasks : invoked'[t] = invoked[t] + 1}
Holding == {t \in Tasks : invoked[t] > 0 /\ ~released[t]}

\* What one completion does to a queue that is not being called by enqueue.
CompletionStep ==
    /\ Cardinality(CompletedNow) = 1
    /\ \A t \in Tasks : invoked'[t] \in {invoked[t], invoked[t] + 1}
    /\ IF queue # <<>>
       THEN /\ StartedNow = {Head(queue)}
            /\ queue' = Tail(queue)
            /\ activeCount' = activeCount - 1 + 1
       ELSE /\ StartedNow = {}
            /\ queue' = queue
            /\ activeCount' = activeCount - 1

CleanupStep == lastCall'.op = "cleanup" /\ now' = now

InWindow(ts) == ts > now - windowMs
AllExpired(list) == \A i \in 1..Len(list) : ~InWindow(list[i])

\* C37: immediately after cleanup() every client still in the map has at
\* least one timestamp newer than now - windowMs and no expired timestamp,
\* and every client whose timestamps had all expired is gone from the map.
C37_CleanupPostcondition ==
    [][CleanupStep =>
          /\ \A c \in DOMAIN requests' :
                 /\ \E i \in 1..Len(requests'[c]) : InWindow(requests'[c][i])
                 /\ \A i \in 1..Len(requests'[c]) : InWindow(requests'[c][i])
          /\ \A c \in DOMAIN requests :
                 AllExpired(requests[c]) => c \notin DOMAIN requests']_vars

\* cleanup() has just removed a client whose timestamps had all expired and
\* kept another.
C37_Witness ==
    /\ lastCall.op = "cleanup"
    /\ \E c \in DOMAIN unswept :
           /\ c \notin DOMAIN requests
           /\ AllExpired(unswept[c])
    /\ \E c \in DOMAIN requests : ~AllExpired(requests[c])

\* ======================================= requests guarded by the limiter
\* Each request calls checkLimit(clientId) and, if that allowed it, calls
\* recordRequest(clientId) (src/auth.ts 237-294); the two calls of one
\* request are two steps, and the steps of the requests interleave.
HandlerInit == HandlerIdle

\* const result = rateLimiter.checkLimit(clientId), for the next request.
HandlerChecks(r, c) ==
    /\ handler[r].pc = "new"
    /\ \A q \in Handled : q < r => handler[q].pc # "new"
    /\ LET result == CheckLimitResult(requests, c, now)
       IN  /\ handler' =
                  [handler EXCEPT ![r] =
                      [pc |-> IF result.allowed THEN "allowed"
                              ELSE "denied",
                       client |-> c]]
           /\ lastCall' = [op |-> "checkLimit", client |-> c,
                           result |-> {result}]
    /\ requests' = StoreAfterCheck(requests, c, now)
    /\ UNCHANGED <<enabled, windowMs, maxRequests, now, recorded, unswept,
                   hint>>
    /\ UNCHANGED <<queueVars, backoffVars, retryVars, sessionVars, authVars,
                   statsVars>>

\* if (result.allowed) rateLimiter.recordRequest(clientId)
HandlerRecords(r) ==
    /\ handler[r].pc = "allowed"
    /\ LET c == handler[r].client
       IN  /\ requests' = StoreAfterRecord(requests, c, now)
           /\ unswept' = StoreAfterRecord(unswept, c, now)
           /\ recorded' = [recorded EXCEPT ![c] = Append(@, now)]
           /\ lastCall' = [op |-> "recordRequest", client |-> c,
                           result |-> {}]
    /\ handler' = [handler EXCEPT ![r].pc = "recorded"]
    /\ UNCHANGED <<enabled, windowMs, maxRequests, now, hint>>
    /\ UNCHANGED <<queueVars, backoffVars, retryVars, sessionVars, authVars,
                   statsVars>>

\* Time passes while requests are being handled.
HandlerTick ==
    /\ now + TimeStep <= MaxTicks * TimeStep
    /\ now' = now + TimeStep
    /\ UNCHANGED <<enabled, windowMs, maxRequests, requests, recorded,
                   unswept, lastCall, hint, handler>>
    /\ UNCHANGED <<queueVars, backoffVars, retryVars, sessionVars, authVars,
                   statsVars>>

HandlerNext ==
    \/ \E r \in Handled, c \in Clients : HandlerChecks(r, c)
    \/ \E r \in Handled : HandlerRecords(r)
    \/ HandlerTick

HandlerStart ==
    /\ HandlerInit
    /\ LimiterInit
    /\ QueueIdle /\ BackoffIdle /\ RetryIdle /\ SessionIdle
    /\ AuthIdle
    /\ StatsIdle

HandlerSpec == HandlerStart /\ [][HandlerNext]_vars

\* ------------------------------------------------ vocabulary of the claims
\* The recorded requests of client c that have not expired.
NonExpired(c) == Len(Filter(Get(requests, c), now - windowMs))

\* C38: when every request performs checkLimit and calls recordRequest only
\* if it was allowed, a client's non-expired recorded requests never exceed
\* maxRequests, however the check and record steps of the requests
\* interleave.
C38_QuotaUnderConcurrency ==
    enabled => \A c \in Clients : NonExpired(c) <= maxRequests

\* C39: the queue is work-conserving.  With maxConcurrent >= 1 and no
\* reset(), whenever the pending sequence is non-empty every slot is taken,
\* so an enqueue made while a task is pending never calls its own work
\* function: it cannot start ahead of the pending task.
C39_WorkConserving ==
    [][/\ queue' # <<>> => activeCount' = maxConcurrent
       /\ (EnqueueStep /\ queue # <<>>) =>
              /\ invoked'[submitted'] = 0
              /\ \A t \in Tasks : InQueue(t) => invoked'[t] = 0]_vars

\* Tasks have completed and been promoted, and two tasks are pending, the
\* second enqueued behind the first.
C39_Witness ==
    /\ maxConcurrent >= 1
    /\ Len(queue) >= 2
    /\ \E t \in Tasks : released[t]
    /\ \E t \in Tasks : WasQueued(t) /\ invoked[t] = 1

\* ============================================ RequestQueue with reset()
\* reset() (src/logging.ts 398-402): the pending sequence is replaced by an
\* empty one and activeCount is set to 0, whatever is running.  The tasks
\* that were pending are dropped: no one holds their resolve and reject any
\* more.  (processedOrder, which only getProcessedOrder reads, is not
\* modelled.)
QueueReset ==
    /\ Become([Here EXCEPT
                  !.queue = <<>>,
                  !.activeCount = 0,
                  !.phase = [t \in Tasks |->
                                IF phase[t] = "pending" THEN "dropped"
                                ELSE phase[t]]])
    /\ UNCHANGED <<maxConcurrent, maxQueueSize, submitted, work, uncaught>>
    /\ UNCHANGED <<limiterVars, backoffVars, retryVars, sessionVars,
                   authVars, statsVars, handlerVars>>

QueueResetNext ==
    \/ QueueNext
    \/ QueueReset

QueueResetSpec == QueueStart /\ [][QueueResetNext]_vars

\* The work functions executing: called, and their promise not yet settled.
Executing == {t \in Tasks : phase[t] = "running"}

\* C40: reset() called while tasks are still running keeps the queue
\* consistent: afterwards the active count never becomes negative and no
\* more than maxConcurrent work functions execute at the same time.
C40_ResetKeepsConsistent ==
    /\ activeCount >= 0
    /\ Cardinality(Executing) <= maxConcurrent
====
